---- MODULE Spec2Model ----
(***************************************************************************)
(* sredd - s(ub)redd(it), version 0.4 (src/main.go lines 1-275).           *)
(*                                                                         *)
(* A run walks config.Subreddits in order.  For each subreddit it fetches  *)
(* the item URLs (checkSub), compares them with the log file written by    *)
(* the previous run and rewrites that log file (checkNew), hands the new   *)
(* URLs to the user's command (execCommand) and waits for the Return key   *)
(* before the next subreddit.                                              *)
(*                                                                         *)
(* Strings are sequences of one-character strings, so that the log file    *)
(* is the byte sequence the program writes and bufio.Scanner reads back.   *)
(***************************************************************************)
EXTENDS Integers, Sequences, FiniteSets, TLC

VARIABLES
    config,     \* the global config (options struct)
    files,      \* the log files: subreddit name -> content, or NoFile
    run,        \* number of the current process invocation
    pc,         \* position of main in its loop body
    index,      \* loop index of main (0-based, as in the source)
    sub,        \* checkSub: URL fields of the decoded response, in order
    urls,       \* main: result of checkSub
    oldURLs,    \* checkNew: lines read from the log file
    newURLs,    \* main: result of checkNew
    argv,       \* execCommand: args of the last command executed
    readErr,    \* main: the error terminal.ReadPassword returned, which is dropped
    stderr,     \* the error message main printed, or NoError
    exitCode    \* exit status of the process, or Running

vars == <<config, files, run, pc, index, sub, urls, oldURLs, newURLs, argv,
          readErr, stderr, exitCode>>

----------------------------------------------------------------------------
(* Bounds of the model.                                                    *)

MaxItems == 2       \* children in one response
MaxFeeds == 2       \* entries of config.Subreddits
MaxRuns == 2        \* process invocations in one behaviour
MaxPartial == 1     \* bytes of new content a failed Flush leaves in the file

----------------------------------------------------------------------------
(* Strings.                                                                *)

NL == "\n"
CR == "\r"

Http == <<"h", "t", "t", "p", ":", "/", "/">>
Https == <<"h", "t", "t", "p", "s", ":", "/", "/">>
CommentsMarker == <<"/", "c", "o", "m", "m", "e", "n", "t", "s", "/">>
AmpEntity == <<"&", "a", "m", "p", ";">>
Amp == <<"&">>

\* the content of a file that does not exist (os.Stat fails): no byte sequence
NoFile == <<"ENOENT">>
NoError == [msg |-> "", err |-> "nil"]
Running == -1

\* strings.HasPrefix
HasPrefix(s, prefix) ==
    /\ Len(s) >= Len(prefix)
    /\ SubSeq(s, 1, Len(prefix)) = prefix

\* strings.Contains
Contains(s, substr) ==
    \E i \in 1..(Len(s) - Len(substr) + 1) :
        SubSeq(s, i, i + Len(substr) - 1) = substr

\* bytes.IndexByte, 1-based; 0 when c does not occur
IndexByte(s, c) ==
    IF \E i \in 1..Len(s) : s[i] = c
    THEN CHOOSE i \in 1..Len(s) : s[i] = c /\ \A j \in 1..(i - 1) : s[j] # c
    ELSE 0

\* Sequences over S of length at most n
SeqUpTo(S, n) == UNION {[1..k -> S] : k \in 0..n}

----------------------------------------------------------------------------
(* The inputs: subreddit names, item URLs, configurations.                 *)

Names == {"s1", "s2"}

URL_A == Http \o <<"a">>                     \* http://a
URL_B == Https \o <<"b">>                    \* https://b
URL_NL == Http \o <<"a", NL, "c">>           \* http://a<LF>c
URL_CR == Https \o <<"b", CR>>               \* https://b<CR>
URL_REL == <<"/", "r", "/", "x">>            \* /r/x
URL_THREAD == Http \o <<"r">> \o CommentsMarker \o <<"1">>
URL_AMP == Http \o <<"a", "?", "x">> \o AmpEntity \o <<"y">> \o AmpEntity \o <<"z">>
URL_UPPER == <<"H", "T", "T", "P", ":", "/", "/", "a">>
URL_EMBED == <<"/", "?">> \o Http \o <<"a">>  \* /?http://a

\* URL fields a response may carry while whole runs are explored
RunItems == {URL_A, URL_NL, URL_REL}

\* URL fields a response may carry when checkSub alone is explored
FetchItems ==
    {URL_A, URL_B, URL_CR, URL_REL, URL_THREAD, URL_AMP, URL_UPPER, URL_EMBED}

ProgramPath == "~/.sredd"

Configs ==
    [Command : {"open"},
     CommandArgs : {<<<<"-", "a">>>>},
     FilterComments : BOOLEAN,
     ProgramPath : {ProgramPath},
     Subreddits : SeqUpTo(Names, MaxFeeds) \ {<<>>}]

----------------------------------------------------------------------------
(* checkSub: the loop over the response's children (lines 130-144).        *)

\* MatchString without the anchor: the pattern "https?://"
MatchStringAnywhere(itemURL) == Contains(itemURL, Http) \/ Contains(itemURL, Https)

\* regexp.MatchString("^https?://", itemURL)
MatchString(itemURL) == HasPrefix(itemURL, Http) \/ HasPrefix(itemURL, Https)

RECURSIVE checkSubLoop(_, _, _)
checkSubLoop(children, filterComments, acc) ==
    IF children = <<>> THEN acc
    ELSE LET itemURL == Head(children) IN
         IF filterComments /\ Contains(itemURL, CommentsMarker)
         THEN checkSubLoop(Tail(children), filterComments, acc)
         ELSE IF MatchString(itemURL) = FALSE
         THEN checkSubLoop(Tail(children), filterComments, acc)
         ELSE checkSubLoop(Tail(children), filterComments, Append(acc, itemURL))

----------------------------------------------------------------------------
(* checkNew: log file path, read, write and compare (lines 55-105).        *)

\* fmt.Sprintf("%s/r_%s.log", config.ProgramPath, name)
Log(name) == <<config.ProgramPath, name>>

LogPaths == {<<ProgramPath, n>> : n \in Names}

\* bufio.ScanLines drops one trailing carriage return of a line
DropCR(data) ==
    IF Len(data) > 0 /\ data[Len(data)] = CR
    THEN SubSeq(data, 1, Len(data) - 1)
    ELSE data

\* bufio.Scanner with the default split function, run to the end of data:
\* the sequence of scanner.Text() values
RECURSIVE ScanLines(_)
ScanLines(data) ==
    IF data = <<>> THEN <<>>
    ELSE LET i == IndexByte(data, NL) IN
         IF i > 0
         THEN <<DropCR(SubSeq(data, 1, i - 1))>>
                  \o ScanLines(SubSeq(data, i + 1, Len(data)))
         ELSE <<DropCR(data)>>

\* the bytes the write loop hands to the bufio.Writer: Sprintf("%s\n", url)
RECURSIVE WriteLoop(_)
WriteLoop(us) ==
    IF us = <<>> THEN <<>>
    ELSE Head(us) \o <<NL>> \o WriteLoop(Tail(us))

\* Dup with "dup = 0" misplaced inside the inner loop: the last old URL decides
DupLast(url, olds, dup) ==
    IF olds # <<>> /\ url = olds[Len(olds)] THEN 1 ELSE 0

\* the inner loop: dup is 1 when some old URL equals url
RECURSIVE Dup(_, _, _)
Dup(url, olds, dup) ==
    IF olds = <<>> THEN dup
    ELSE Dup(url, Tail(olds), IF url = Head(olds) THEN 1 ELSE dup)

\* Compare with each URL compared to the old URL at its own position only
ComparePositional(us, olds, acc) ==
    acc \o SelectSeq([i \in 1..Len(us) |->
                         IF i <= Len(olds) /\ us[i] = olds[i] THEN <<>> ELSE <<us[i]>>],
                     LAMBDA x : x # <<>>)

\* Compare with a URL that is already in the result not appended again
RECURSIVE CompareDedup(_, _, _)
CompareDedup(us, olds, acc) ==
    IF us = <<>> THEN acc
    ELSE CompareDedup(Tail(us), olds,
                      IF Dup(Head(us), olds \o acc, 0) = 0
                      THEN Append(acc, Head(us)) ELSE acc)

\* the outer loop: the URLs of us with dup = 0, appended in order
RECURSIVE Compare(_, _, _)
Compare(us, olds, acc) ==
    IF us = <<>> THEN acc
    ELSE Compare(Tail(us), olds,
                 IF Dup(Head(us), olds, 0) = 0 THEN Append(acc, Head(us)) ELSE acc)

\* what a failed Flush may leave in the file that os.Create has truncated:
\* a strict prefix of data (Flush does not fail when nothing is buffered)
Partial(data) == {SubSeq(data, 1, k) : k \in 0..(Len(data) - 1)}

----------------------------------------------------------------------------
(* The initial state: init() has loaded the configuration (lines 213-237), *)
(* no log file has been written yet, main is about to start its loop.      *)

\* the subreddit names are interchangeable: the first one is "s1"
RunConfigs == {c \in Configs : c.FilterComments /\ c.Subreddits[1] = "s1"}

Init ==
    /\ config \in RunConfigs
    /\ files = [l \in LogPaths |-> NoFile]
    /\ run = 1
    /\ pc = "Fetching"
    /\ index = 0
    /\ sub = <<>>
    /\ urls = <<>>
    /\ oldURLs = <<>>
    /\ newURLs = <<>>
    /\ argv = <<>>
    /\ readErr = "nil"
    /\ stderr = NoError
    /\ exitCode = Running

\* the loop variable name of main
name == config.Subreddits[index + 1]

\* os.Exit(1) after the message "<msg>: <err>" (lines 245-246, 251-252,
\* 264-265)
Exit1(msg, err) ==
    /\ stderr' = [msg |-> msg, err |-> err]
    /\ pc' = "Aborted"
    /\ exitCode' = 1

\* NextIteration of a loop that never leaves its first subreddit
NextIterationStuck ==
    /\ index' = index
    /\ pc' = "Fetching"
    /\ urls' = <<>>
    /\ oldURLs' = <<>>
    /\ newURLs' = <<>>
    /\ argv' = <<>>
    /\ exitCode' = exitCode

\* the for statement takes the next subreddit, with fresh variables of the
\* loop body, or main returns
NextIteration ==
    IF index + 1 < Len(config.Subreddits)
    THEN /\ index' = index + 1
         /\ pc' = "Fetching"
         /\ urls' = <<>>
         /\ oldURLs' = <<>>
         /\ newURLs' = <<>>
         /\ argv' = <<>>
         /\ exitCode' = exitCode
    ELSE /\ index' = index
         /\ pc' = "Done"
         /\ UNCHANGED <<urls, oldURLs, newURLs, argv>>
         /\ exitCode' = 0

----------------------------------------------------------------------------
(* main calls checkSub (lines 241-247, 108-145).                           *)

\* the request succeeds with status 200 and a body that decodes
checkSubOK(items) ==
    /\ pc = "Fetching"
    /\ \E children \in SeqUpTo(items, MaxItems) :
          /\ sub' = children
          /\ urls' = checkSubLoop(children, config.FilterComments, <<>>)
    /\ pc' = "Reconciling"
    /\ readErr' = "nil"
    /\ UNCHANGED <<config, files, run, index, oldURLs, newURLs, argv, stderr,
                   exitCode>>

\* checkSubErr with "continue" in place of os.Exit(1)
checkSubErrContinue ==
    /\ pc = "Fetching"
    /\ stderr' = [msg |-> "Subreddit error", err |-> "fetch"]
    /\ NextIteration
    /\ readErr' = "nil"
    /\ UNCHANGED <<config, files, run, sub>>

\* the request fails, the status is not 200, or the body does not decode
checkSubErr ==
    /\ pc = "Fetching"
    /\ Exit1("Subreddit error", "fetch")
    /\ readErr' = "nil"
    /\ UNCHANGED <<config, files, run, index, sub, urls, oldURLs, newURLs, argv>>

----------------------------------------------------------------------------
(* main calls checkNew (lines 248-253, 55-105).                            *)

\* AfterCheckNew without the test for an empty result
AfterCheckNewAlwaysActs(result) == "Acting"

\* where main goes with the result of checkNew (lines 254, 262)
AfterCheckNew(result) == IF Len(result) = 0 THEN "Idle" ELSE "Acting"

\* the old URLs: the lines of the log file if os.Stat finds it (lines 57-72)
ReadLog(file) == IF file # NoFile THEN ScanLines(file) ELSE <<>>

\* checkNewOK with the new URLs written to the log file, not all of them
checkNewOKWritesNew ==
    /\ pc = "Reconciling"
    /\ oldURLs' = ReadLog(files[Log(name)])
    /\ newURLs' = Compare(urls, oldURLs', <<>>)
    /\ files' = [files EXCEPT ![Log(name)] = WriteLoop(newURLs')]
    /\ pc' = AfterCheckNew(newURLs')
    /\ sub' = <<>>
    /\ UNCHANGED <<config, readErr, run, index, urls, argv, stderr, exitCode>>

\* read, write and compare all succeed
checkNewOK ==
    /\ pc = "Reconciling"
    /\ oldURLs' = ReadLog(files[Log(name)])
    /\ files' = [files EXCEPT ![Log(name)] = WriteLoop(urls)]
    /\ newURLs' = Compare(urls, oldURLs', <<>>)
    /\ pc' = AfterCheckNew(newURLs')
    /\ sub' = <<>>
    /\ UNCHANGED <<config, readErr, run, index, urls, argv, stderr, exitCode>>

\* checkNewReadErr with os.Create moved before the read: the file is emptied
checkNewReadErrTruncates ==
    /\ pc = "Reconciling"
    /\ files[Log(name)] # NoFile
    /\ files' = [files EXCEPT ![Log(name)] = <<>>]
    /\ Exit1("New posts error", "read")
    /\ sub' = <<>>
    /\ UNCHANGED <<config, readErr, run, index, urls, oldURLs, newURLs, argv>>

\* checkNewReadErr with the os.Stat error returned: a missing file is an error
checkNewReadErrMissing ==
    /\ pc = "Reconciling"
    /\ Exit1("New posts error", "read")
    /\ sub' = <<>>
    /\ UNCHANGED <<config, readErr, files, run, index, urls, oldURLs, newURLs, argv>>

\* os.Open or the scanner fails (lines 60-70): nothing is written
checkNewReadErr ==
    /\ pc = "Reconciling"
    /\ files[Log(name)] # NoFile
    /\ Exit1("New posts error", "read")
    /\ sub' = <<>>
    /\ UNCHANGED <<config, readErr, files, run, index, urls, oldURLs, newURLs, argv>>

\* os.Create fails (lines 75-78): the file is as it was
checkNewCreateErr ==
    /\ pc = "Reconciling"
    /\ oldURLs' = ReadLog(files[Log(name)])
    /\ Exit1("New posts error", "create")
    /\ sub' = <<>>
    /\ UNCHANGED <<config, readErr, files, run, index, urls, newURLs, argv>>

\* writer.Flush fails (lines 87-90): the file was truncated by os.Create and
\* holds some part of the new content
checkNewFlushErr ==
    /\ pc = "Reconciling"
    /\ oldURLs' = ReadLog(files[Log(name)])
    /\ \E part \in Partial(WriteLoop(urls)) :
          /\ Len(part) <= MaxPartial
          /\ files' = [files EXCEPT ![Log(name)] = part]
    /\ Exit1("New posts error", "flush")
    /\ sub' = <<>>
    /\ UNCHANGED <<config, readErr, run, index, urls, newURLs, argv>>

----------------------------------------------------------------------------
(* No new URLs (lines 254-261).                                            *)

\* noNewPosts without the "continue": the wait for the Return key follows
noNewPostsPause ==
    /\ pc = "Idle"
    /\ pc' = IF index = Len(config.Subreddits) - 1 THEN "Done" ELSE "Pausing"
    /\ exitCode' = IF pc' = "Done" THEN 0 ELSE exitCode
    /\ UNCHANGED <<config, readErr, files, run, index, sub, urls, oldURLs, newURLs, argv,
                   stderr>>

noNewPosts ==
    /\ pc = "Idle"
    /\ NextIteration
    /\ UNCHANGED <<config, readErr, files, run, sub, stderr>>

----------------------------------------------------------------------------
(* main calls execCommand (lines 262-270, 148-161).                        *)

\* AfterCommand without the test for the last subreddit
AfterCommandAlwaysPause == "Pausing"

\* where main goes when the command has succeeded (lines 268-271)
AfterCommand == IF index = Len(config.Subreddits) - 1 THEN "Done" ELSE "Pausing"

\* execCommandOK with the arguments of the call kept in config.CommandArgs
execCommandOKKeepsArgs ==
    /\ pc = "Acting"
    /\ argv' = config.CommandArgs \o newURLs
    /\ config' = [config EXCEPT !.CommandArgs = argv']
    /\ pc' = AfterCommand
    /\ exitCode' = IF pc' = "Done" THEN 0 ELSE exitCode
    /\ UNCHANGED <<readErr, files, run, index, sub, urls, oldURLs, newURLs, stderr>>

\* the command is started and exits with status 0 (lines 148-161, 262)
execCommandOK ==
    /\ pc = "Acting"
    /\ argv' = config.CommandArgs \o newURLs
    /\ pc' = AfterCommand
    /\ exitCode' = IF pc' = "Done" THEN 0 ELSE exitCode
    /\ UNCHANGED <<config, readErr, files, run, index, sub, urls, oldURLs, newURLs, stderr>>

\* execCommandErr with the message printed but without os.Exit(1)
execCommandErrGoesOn ==
    /\ pc = "Acting"
    /\ argv' = config.CommandArgs \o newURLs
    /\ stderr' = [msg |-> "Command error", err |-> "exec"]
    /\ pc' = AfterCommand
    /\ exitCode' = IF pc' = "Done" THEN 0 ELSE exitCode
    /\ UNCHANGED <<config, readErr, files, run, index, sub, urls, oldURLs, newURLs>>

\* the command cannot be started or exits with a status other than 0
execCommandErr ==
    /\ pc = "Acting"
    /\ argv' = config.CommandArgs \o newURLs
    /\ Exit1("Command error", "exec")
    /\ UNCHANGED <<config, readErr, files, run, index, sub, urls, oldURLs, newURLs>>

----------------------------------------------------------------------------
(* terminal.ReadPassword returns (lines 271-274): with the line typed, or  *)
(* with an error when standard input cannot be read (it is no terminal).   *)
(* main drops both results and goes on.                                    *)

readPassword ==
    /\ pc = "Pausing"
    /\ readErr' \in {"nil", "ENOTTY"}
    /\ NextIteration
    /\ UNCHANGED <<config, files, run, sub, stderr>>

----------------------------------------------------------------------------
(* The program is started again: init() loads the same configuration, the  *)
(* log files are those the earlier runs left.                              *)

nextRun ==
    /\ pc \in {"Done", "Aborted"}
    /\ run < MaxRuns
    /\ run' = run + 1
    /\ pc' = "Fetching"
    /\ index' = 0
    /\ sub' = <<>>
    /\ urls' = <<>>
    /\ oldURLs' = <<>>
    /\ newURLs' = <<>>
    /\ argv' = <<>>
    /\ readErr' = "nil"
    /\ stderr' = NoError
    /\ exitCode' = Running
    /\ UNCHANGED <<config, files>>

Next ==
    \/ checkSubOK(RunItems)
    \/ checkSubErr
    \/ checkNewOK
    \/ checkNewReadErr
    \/ checkNewCreateErr
    \/ checkNewFlushErr
    \/ noNewPosts
    \/ execCommandOK
    \/ execCommandErr
    \/ readPassword
    \/ nextRun

Spec == Init /\ [][Next]_vars

----------------------------------------------------------------------------
(* One run of the program, in which every call main waits for returns: the *)
(* request, the file operations, the command and terminal.ReadPassword.    *)

RunStep ==
    \/ checkSubOK(RunItems)
    \/ checkSubErr
    \/ checkNewOK
    \/ checkNewReadErr
    \/ checkNewCreateErr
    \/ checkNewFlushErr
    \/ noNewPosts
    \/ execCommandOK
    \/ execCommandErr
    \/ readPassword

\* where main is: at one of the calls of the loop body, or returned or exited
Positions ==
    {"Fetching", "Reconciling", "Idle", "Acting", "Pausing", "Done", "Aborted"}

\* the call main is waiting for returns, and main goes on from there
Returns ==
    /\ pc \notin {"Done", "Aborted"}
    /\ pc' \in Positions \ {pc}

SpecRun == Init /\ [][RunStep]_vars /\ WF_pc(Returns)

----------------------------------------------------------------------------
(* checkSub alone: one subreddit, either setting of FilterComments, and    *)
(* responses over FetchItems.                                              *)

FetchConfigs == {c \in Configs : c.Subreddits = <<"s1">>}

InitFetch ==
    /\ config \in FetchConfigs
    /\ files = [l \in LogPaths |-> NoFile]
    /\ run = 1
    /\ pc = "Fetching"
    /\ index = 0
    /\ sub = <<>>
    /\ urls = <<>>
    /\ oldURLs = <<>>
    /\ newURLs = <<>>
    /\ argv = <<>>
    /\ readErr = "nil"
    /\ stderr = NoError
    /\ exitCode = Running

NextFetch ==
    \/ checkSubOK(FetchItems)
    \/ checkSubErr

SpecFetch == InitFetch /\ [][NextFetch]_vars

----------------------------------------------------------------------------
(* Vocabulary of the properties.                                           *)

Range(s) == {s[i] : i \in 1..Len(s)}

\* the elements of us that occur nowhere in P, in the order of us
Absent(us, P) == SelectSeq(us, LAMBDA u : u \notin Range(P))

\* how often u occurs in s
Count(s, u) == Cardinality({i \in 1..Len(s) : s[i] = u})

\* the URLs of us one per line: each followed by a line feed
OnePerLine(us) ==
    LET RECURSIVE Lines(_)
        Lines(k) == IF k = 0 THEN <<>> ELSE Lines(k - 1) \o us[k] \o <<NL>>
    IN Lines(Len(us))

\* s with every occurrence of &amp; replaced by &
RECURSIVE Unescape(_)
Unescape(s) ==
    IF s = <<>> THEN <<>>
    ELSE IF HasPrefix(s, AmpEntity)
    THEN Amp \o Unescape(SubSeq(s, Len(AmpEntity) + 1, Len(s)))
    ELSE <<Head(s)>> \o Unescape(Tail(s))

\* the items checkSub is to keep (spec 4.1, steps 1 and 2)
Kept(children, filterComments) ==
    SelectSeq(children,
              LAMBDA u : /\ ~(filterComments /\ Contains(u, CommentsMarker))
                         /\ (HasPrefix(u, Http) \/ HasPrefix(u, Https)))

\* the step in which checkNew returns its result to main
ReconcileOK == pc = "Reconciling" /\ pc' \in {"Idle", "Acting"}

\* checkNew has returned its result in the current iteration of main
Reconciled ==
    \/ pc \in {"Idle", "Acting", "Pausing", "Done"}
    \/ pc = "Aborted" /\ stderr.msg = "Command error"

LastIndex == Len(config.Subreddits) - 1

----------------------------------------------------------------------------
(* C1: when checkNew returns its result, the result is the subsequence of  *)
(* the current URLs, in their order, made of the URLs that occur nowhere   *)
(* among the lines the log file held before this call overwrote it.        *)

C1_NewAreAbsentFromOld ==
    [][ReconcileOK => newURLs' = Absent(urls, ReadLog(files[Log(name)]))]_vars

\* some current URL was in the old log file and another one was not
C1_Witness ==
    /\ pc = "Acting"
    /\ oldURLs # <<>>
    /\ Len(urls) = 2
    /\ Len(newURLs) = 1
    /\ newURLs[1] = urls[1]

(* C2: two calls of checkNew in succession for one subreddit with the same *)
(* current URLs: the first, with no log file, returns all of them; the     *)
(* second, which finds the log file holding these URLs one per line,       *)
(* returns nothing.                                                        *)

C2_Idempotent ==
    [][ReconcileOK =>
          /\ files[Log(name)] = NoFile => newURLs' = urls
          /\ files[Log(name)] = OnePerLine(urls) => newURLs' = <<>>]_vars

(* C3: when checkNew returns its result, the log file of the subreddit     *)
(* holds exactly the current URLs, one per line, in their order, whatever  *)
(* it held before, and the other log files are as they were; no step other *)
(* than a call of checkNew changes a log file.                             *)

C3_LogFileIsCurrentURLs ==
    [][/\ ReconcileOK =>
            files' = [files EXCEPT ![Log(name)] = OnePerLine(urls)]
       /\ pc # "Reconciling" => files' = files]_vars

\* a log file with other content has been replaced by two current URLs
C3_Witness ==
    /\ pc = "Acting"
    /\ oldURLs # <<>>
    /\ Len(urls) = 2
    /\ urls[1] # urls[2]
    /\ Range(oldURLs) \cap Range(urls) = {}
    /\ files[Log(name)] = OnePerLine(urls)

(* C4: when checkSub fails, the run is over at once with exit code 1, no   *)
(* log file is modified, and nothing more happens in that run: the next    *)
(* step, if any, is a new start of the program.                            *)

C4_FetchErrorAborts ==
    [][/\ pc = "Fetching" /\ stderr'.msg = "Subreddit error" =>
            pc' = "Aborted" /\ exitCode' = 1 /\ files' = files
       /\ pc = "Aborted" =>
            run' = run + 1 /\ files' = files /\ exitCode = 1]_vars

\* the fetch of the first of two subreddits failed with its log file present
C4_Witness ==
    /\ pc = "Aborted"
    /\ stderr.msg = "Subreddit error"
    /\ index = 0
    /\ LastIndex = 1
    /\ exitCode = 1
    /\ files[Log(name)] \notin {NoFile, <<>>}

(* C5, as claimed: a subreddit without new URLs that is not the last one   *)
(* waits for the Return key before the next subreddit is fetched.          *)

C6_LastNeverPauses == pc = "Pausing" => index < LastIndex

\* the run has ended after the command of the last subreddit succeeded
C6_Witness ==
    /\ pc = "Done"
    /\ index = LastIndex
    /\ newURLs # <<>>
    /\ argv # <<>>
    /\ exitCode = 0

(* C7: when the log file of the subreddit does not exist, checkNew does    *)
(* not fail reading it, and the result it returns is the current URLs,     *)
(* unchanged and in their order, with no error reported.                   *)

C7_NoLogFile ==
    [][pc = "Reconciling" /\ files[Log(name)] = NoFile =>
          /\ stderr'.err # "read"
          /\ pc' \in {"Idle", "Acting"} =>
                newURLs' = urls /\ stderr' = NoError]_vars

\* first run, first subreddit: two different URLs, both returned
C7_Witness ==
    /\ pc = "Acting"
    /\ run = 1
    /\ index = 0
    /\ oldURLs = <<>>
    /\ Len(urls) = 2
    /\ urls[1] # urls[2]
    /\ newURLs = urls

(* C8: when every current URL is among the lines read from the log file,   *)
(* checkNew returns nothing, and main prints its notice and goes on        *)
(* without executing the command.                                          *)

C8_AllOldNoneNew ==
    Reconciled /\ Range(urls) \subseteq Range(oldURLs) =>
        /\ newURLs = <<>>
        /\ argv = <<>>
        /\ pc \in {"Idle", "Done"}

\* there were current URLs, all of them in the log file
C8_Witness ==
    /\ pc = "Idle"
    /\ urls # <<>>
    /\ Len(oldURLs) > 1
    /\ Range(urls) \subseteq Range(oldURLs)

(* C9: a URL that is not among the lines read from the log file occurs in  *)
(* the result of checkNew as often as among the current URLs: twice if it  *)
(* is there twice.                                                         *)

C9_DuplicatesKept ==
    Reconciled =>
        \A u \in Range(urls) \ Range(oldURLs) : Count(newURLs, u) = Count(urls, u)

\* the same new URL twice in the result
C9_Witness ==
    /\ Reconciled
    /\ Len(newURLs) = 2
    /\ newURLs[1] = newURLs[2]
    /\ newURLs[1] \notin Range(oldURLs)

(* C10: the URLs checkSub returns are the kept items with every &amp;      *)
(* replaced by &.                                                          *)

C10_AmpUnescaped ==
    pc = "Reconciling" =>
        LET kept == Kept(sub, config.FilterComments)
        IN urls = [i \in 1..Len(kept) |-> Unescape(kept[i])]

(* C11: checkSub drops an item exactly when FilterComments is set and its *)
(* URL contains /comments/, or its URL does not start with http:// or      *)
(* https://; it returns the other items in their order, an item that       *)
(* occurs twice being returned twice.                                      *)

C12_InputErrorWaits ==
    [][pc = "Pausing" /\ readErr' # "nil" => pc' = "Sleeping"]_vars

(* C13: when the command cannot be started or exits with a status other  *)
(* than 0, the run is over at once with exit code 1, whatever the          *)
(* subreddit; nothing more happens in that run: no fetch, no call of       *)
(* checkNew, no command and no wait for the Return key.                    *)

C13_CommandErrorAborts ==
    [][/\ pc = "Acting" /\ stderr'.msg = "Command error" =>
            pc' = "Aborted" /\ exitCode' = 1
       /\ stderr.msg = "Command error" =>
            pc = "Aborted" /\ exitCode = 1 /\ run' = run + 1]_vars

\* the command of the first of two subreddits failed
C13_Witness ==
    /\ pc = "Aborted"
    /\ stderr.msg = "Command error"
    /\ index = 0
    /\ LastIndex = 1
    /\ Len(argv) > Len(config.CommandArgs)
    /\ exitCode = 1

(* C14: when os.Open or the scanner fails on an existing log file, checkNew *)
(* returns the error before os.Create is called: no log file is changed,   *)
(* no result is returned, and the run is over with exit code 1.            *)

C15_StrictSequence ==
    [][run' = run =>
          /\ pc = "Fetching" => pc' \in {"Reconciling", "Aborted"}
          /\ pc = "Reconciling" =>
                /\ pc' \in {"Acting", "Idle", "Aborted"}
                /\ pc' = "Acting" => newURLs' # <<>>
                /\ pc' = "Idle" => newURLs' = <<>>
          /\ pc = "Acting" =>
                /\ newURLs # <<>>
                /\ pc' \in {"Pausing", "Done", "Aborted"}
                /\ argv' = config.CommandArgs \o newURLs
          /\ pc = "Idle" => pc' \in {"Fetching", "Done"}
          /\ pc = "Pausing" => pc' = "Fetching"
          /\ pc \in {"Fetching", "Reconciling", "Acting"} => index' = index
          /\ pc' = "Fetching" =>
                /\ pc \in {"Idle", "Pausing"}
                /\ index' = index + 1
                /\ index' <= LastIndex
          /\ pc' # "Fetching" => index' = index
          /\ argv' # argv => pc = "Acting" \/ pc' = "Fetching"]_vars

\* the command runs for the second subreddit
C15_Witness ==
    /\ pc = "Acting"
    /\ index = 1
    /\ Len(newURLs) = 2

(* C16: if every call main waits for returns, the run ends in one of two  *)
(* ways and stays there: Done with exit code 0, every subreddit taken and  *)
(* no error printed, or Aborted with exit code 1 and the error of          *)
(* checkSub, checkNew or the command printed.                              *)

EndedDone ==
    /\ pc = "Done"
    /\ exitCode = 0
    /\ stderr = NoError
    /\ index = LastIndex

EndedAborted ==
    /\ pc = "Aborted"
    /\ exitCode = 1
    /\ stderr.msg \in {"Subreddit error", "New posts error", "Command error"}

C16_RunEnds == <>[]EndedDone \/ <>[]EndedAborted

\* a run over two subreddits has ended without new URLs for the second
C16_Witness ==
    /\ EndedDone
    /\ index = 1
    /\ newURLs = <<>>
    /\ argv = <<>>

----------------------------------------------------------------------------
(* C17: when checkNew returns its result for a subreddit, the result is    *)
(* the current URLs if there is no log file yet, and, if the log file is   *)
(* what the previous successful call for this subreddit wrote for its URLs *)
(* F, the result is the current URLs that do not occur in F.               *)

\* what checkSub can return in Spec
FetchResults ==
    {checkSubLoop(children, config.FilterComments, <<>>) :
        children \in SeqUpTo(RunItems, MaxItems)}

C17_NewSincePreviousRun ==
    [][ReconcileOK =>
        /\ files[Log(name)] = NoFile => newURLs' = urls
        /\ \A F \in FetchResults :
              files[Log(name)] = OnePerLine(F) => newURLs' = Absent(urls, F)]_vars

----------------------------------------------------------------------------
(* C18: the command is called with config.CommandArgs followed by the URLs *)
(* checkNew returned for the current subreddit, which are the current URLs *)
(* not among the old ones, in their order and at least one; and no step of *)
(* the program changes config.                                             *)

C18_CommandArguments ==
    [][/\ pc = "Acting" /\ pc' # "Acting" =>
            /\ argv' = config.CommandArgs \o Absent(urls, oldURLs)
            /\ Len(argv') > Len(config.CommandArgs)
       /\ config' = config]_vars

\* the second subreddit of a first run has had its command called, with two
\* URLs, after the first subreddit had its own command called
C18_Witness ==
    /\ pc = "Done"
    /\ run = 1
    /\ index = 1
    /\ files[Log(config.Subreddits[1])] \notin {NoFile, <<>>}
    /\ argv = config.CommandArgs \o newURLs
    /\ Len(newURLs) = 2

----------------------------------------------------------------------------
(* C19: when the run has been aborted by an error of the command, the log  *)
(* file of the subreddit holds the current URLs, one per line, and a       *)
(* following run that gets the same URLs for it finds none of them new:    *)
(* checkNew's comparison of these URLs with that log file is empty.        *)

C19_FailedCommandNotRepeated ==
    pc = "Aborted" /\ stderr.msg = "Command error" =>
        /\ files[Log(name)] = OnePerLine(urls)
        /\ Compare(urls, ReadLog(files[Log(name)]), <<>>) = <<>>

----------------------------------------------------------------------------
(* C20: when the current subreddit has occurred earlier in the same run,   *)
(* its log file is the one the earlier occurrence wrote; if that file      *)
(* holds the current URLs one per line (both occurrences got the same      *)
(* URLs), checkNew returns nothing and main does not call the command.     *)

\* the current subreddit was taken earlier in this run
OccurredEarlier == \E j \in 1..index : config.Subreddits[j] = name

C20_SecondOccurrenceIdle ==
    [][ReconcileOK /\ OccurredEarlier /\ files[Log(name)] = OnePerLine(urls) =>
          newURLs' = <<>> /\ pc' = "Idle"]_vars

====
